---- MODULE Spec2Model ----
(***************************************************************************)
(* The LLM-connection layer of hackingBuddyGPT:                            *)
(*   - OpenAIConnection (utils/openai/openai_llm.py): raw HTTP POST with a *)
(*     recursive retry on 429 / connection error / timeout, and encode;    *)
(*   - OpenAILib (utils/openai/openai_lib.py): init, get_response,         *)
(*     stream_response (the streaming accumulator), encode, count_tokens.  *)
(*                                                                         *)
(* Texts (prompts, contents, argument deltas) are sequences of characters. *)
(* Model identifiers are sequences of segments, so that str.startswith,    *)
(* the substring test `x in self.model` and str.replace are computed.      *)
(* The tokenizer libraries (tiktoken, vertexai) are external: they are     *)
(* modelled as total functions from a text to a sequence of token ids, and *)
(* the prompt they are handed is a text. The openai client is external     *)
(* too: a create call answers a completion (or a chunk stream) or raises.  *)
(***************************************************************************)
EXTENDS Integers, Sequences, FiniteSets, TLC

VARIABLES
    cls,            \* which connection class the exchange runs on
    op,             \* the operation under way: "get_response", "stream_response", "encode"
    use_openrouter, \* self.use_openrouter
    model,          \* self.model
    api_retries,    \* self.api_retries
    api_backoff,    \* self.api_backoff
    tokenizer,      \* self._tokenizer: None, or the tokenizer family bound
    prompt,         \* the prompt argument of the current frame: a text or a template
    script,         \* what the backend answers, request after request
    pc,             \* position of the exchange
    retry,          \* the retry argument of the current get_response frame
    requests,       \* the HTTP requests sent so far (requests.post calls)
    sleeps,         \* the durations passed to time.sleep so far
    outcome,        \* how the call ended: the exception raised, or "ok"
    result,         \* the LLMResult returned (None before)
    error,          \* the arguments of the gateway exception raised (None otherwise)
    console,        \* streaming: the console argument, the sink of the progress display
    printed,        \* streaming: what the console has shown so far
    max_rounds,     \* wintermute: args.max_rounds
    round,          \* wintermute: the round counter
    gotRoot,        \* wintermute: whether root has been obtained
    cmd,            \* wintermute: the name cmd, None while it is unbound
    db_log,         \* wintermute: the entries written by db.add_log_query
    commits,        \* wintermute: the number of db.commit() calls
    runs,           \* wintermute: the db.run_was_success / run_was_failure calls
    chunks,         \* streaming: the chunks the transport has delivered so far
    message,        \* streaming: the ChatCompletionMessage being accumulated
    usage,          \* streaming: the running usage tally
    state,          \* streaming: the display phase (None, "content", "tool_call")
    yielded,        \* streaming: what the generator has produced so far
    text,           \* encode / count_tokens: the query text
    encoded,        \* encode: the value returned (None before)
    counted,        \* count_tokens: the value returned (None before)
    endpoint,       \* GeminiRequest.__call__: the endpoint argument
    payload         \* GeminiRequest.__call__: the payload argument

vars == <<cls, op, use_openrouter, model, api_retries, api_backoff, tokenizer,
          prompt, script, pc, retry, requests, sleeps, outcome, result,
          chunks, message, usage, state, yielded, text, encoded, counted,
          endpoint, payload, error, console, printed,
          max_rounds, round, gotRoot, cmd, db_log, commits, runs>>

connVars == <<cls, op, use_openrouter, model, api_retries, api_backoff, script>>
getVars == <<pc, retry, requests, sleeps, outcome, result>>
streamVars == <<chunks, message, usage, state, yielded>>
tokVars == <<text, encoded, counted>>
capVars == <<endpoint, payload>>
sinkVars == <<console, printed>>
loopVars == <<max_rounds, round, gotRoot, cmd, db_log, commits, runs>>

\* Python's None, and a value that is not None
None == [none |-> TRUE]
Some(v) == [none |-> FALSE, val |-> v]

-----------------------------------------------------------------------------
\* Bounds of the model

\* largest api_retries configured
MaxRetries == 3
\* longest query text drawn for encode / count_tokens
MaxLen == 3
\* most chunks one stream delivers
MaxChunks == 3
MaxRounds == 3

-----------------------------------------------------------------------------
\* Data

Chars == {"a", "b"}

RECURSIVE SeqsUpTo(_, _)
SeqsUpTo(S, n) ==
    IF n = 0 THEN {<<>>}
    ELSE LET shorter == SeqsUpTo(S, n - 1)
         IN  shorter \cup {Append(s, x) : s \in {t \in shorter : Len(t) = n - 1}, x \in S}

Texts == SeqsUpTo(Chars, MaxLen)

Classes == {"OpenAIConnection", "OpenAILib"}

\* model identifiers, cut into segments
Models == { <<"gpt-", "4">>,
            <<"google/", "gemini-flash-1.5-exp">>,
            <<"google/", "gemini-2.0-flash">>,
            <<"meta-llama/", "llama-3-8b">> }

\* str.startswith
StartsWith(m, prefix) == Len(m) >= 1 /\ m[1] = prefix

\* the substring test `needle in m`
Contains(m, needle) ==
    \E i \in 0..(Len(m) - Len(needle)) :
        \A j \in 1..Len(needle) : m[i + j] = needle[j]

\* the model families whose hosted tokenizer OpenAIConnection looks up
GeminiOrGemmaModels == { <<"google/", "gemini-flash-1.5-8b-exp">>,
                         <<"google/", "gemini-flash-1.5-exp">>,
                         <<"google/", "gemini-pro-1.5-exp">>,
                         <<"google/", "gemma-2-9b-it:free">> }

IsGeminiOrGemma(m) == \E g \in GeminiOrGemmaModels : Contains(m, g)

-----------------------------------------------------------------------------
\* Tokenizers (external libraries, modelled as total functions)

CharId(c) == IF c = "a" THEN 1 ELSE 2

\* tiktoken's Encoding.encode: here one token per character
TiktokenEncode(t) == [i \in 1..Len(t) |-> CharId(t[i])]

\* the vertexai tokenizer's encode(...).tokens: here one token per two characters
VertexEncode(t) ==
    [k \in 1..((Len(t) + 1) \div 2) |->
        10 * CharId(t[2 * k - 1]) + (IF 2 * k <= Len(t) THEN CharId(t[2 * k]) ELSE 0)]

\* the vertexai tokenizer's count_tokens(...).total_tokens
VertexCount(t) == Len(VertexEncode(t))

-----------------------------------------------------------------------------
\* The backend: HTTP responses and transport failures

\* usage objects (prompt_tokens, completion_tokens) of a response body or a chunk
Usage1 == [prompt_tokens |-> 51, completion_tokens |-> 17]
Usage2 == [prompt_tokens |-> 64, completion_tokens |-> 23]

\* the choices lists of a 200 body: none, one, or two choices
ChoiceLists == {<<>>} \cup {<<[content |-> c]>> : c \in {<<"a">>, <<"b", "a">>}}
                      \cup {<<[content |-> <<>>], [content |-> <<"a">>]>>}

\* the body's 'usage' key: missing ("absent"), null (None), or an object
BodyUsages == {[key |-> "absent"], [key |-> "null"]}
              \cup {[key |-> "object", val |-> Usage1]}

Http(status, choices, u) == [kind |-> "http", status |-> status, choices |-> choices, usage |-> u]

\* responses after which OpenAIConnection.get_response re-attempts
RetryableFailures == { Http(429, <<>>, [key |-> "absent"]),
                       [kind |-> "ConnectionError"],
                       [kind |-> "Timeout"] }

\* responses that end the exchange
TerminalResponses == { Http(500, <<>>, [key |-> "absent"]), Http(201, <<>>, [key |-> "absent"]) }
                     \cup { Http(200, c, u) : c \in ChoiceLists, u \in BodyUsages }

\* what the backend answers to the successive requests of one exchange that may
\* send up to n requests: retryable failures, ended or not by a terminal response
Scripts(n) ==
    { Append(f, t) : f \in SeqsUpTo(RetryableFailures, n - 1), t \in TerminalResponses }
    \cup { f \in SeqsUpTo(RetryableFailures, n) : Len(f) = n }

-----------------------------------------------------------------------------
\* Tokenizer selection (OpenAILib.init)

\* the tokenizer family init binds: "vertex" (get_tokenizer_for_model),
\* "tiktoken" (tiktoken.encoding_for_model), or None
SelectTokenizer(openrouter, m) ==
    IF openrouter /\ StartsWith(m, "google/") THEN Some("vertex")
    ELSE IF ~openrouter /\ StartsWith(m, "gpt-") THEN Some("tiktoken")
    ELSE None

\* the token counting of OpenAILib.get_response and stream_response:
\* <<tokens_query, tokens_response>> for a prompt and a content
LibTokenCounts(tok, openrouter, m, p, content) ==
    IF tok # None
    THEN IF openrouter /\ StartsWith(m, "google/")
         THEN <<VertexCount(p), VertexCount(content)>>
         ELSE IF ~openrouter /\ StartsWith(m, "gpt-")
         THEN <<Len(TiktokenEncode(p)), Len(TiktokenEncode(content))>>
         ELSE <<0, 0>>
    ELSE <<0, 0>>

\* a slip in the argument order: the prompt handed over as the answer
LLMResult_PromptAsAnswer(raw, p, content, tq, tr) ==
    [raw_message |-> raw, prompt |-> p, content |-> p,
     tokens_query |-> tq, tokens_response |-> tr]

\* LLMResult(message, prompt, answer, duration, tokens_query, tokens_response);
\* the duration is left out
LLMResult(raw, p, content, tq, tr) ==
    [raw_message |-> raw, prompt |-> p, content |-> content,
     tokens_query |-> tq, tokens_response |-> tr]

-----------------------------------------------------------------------------
\* OpenAIConnection.get_response

\* the fixed delay slept after a connection error
ConnectionErrorDelay == 5

\* `if retry >= self.api_retries: raise`
RetryLimitReached(r, limit) == r >= limit

\* hasattr(prompt, "render"): a template, told from a text by its head
IsTemplate(p) == Len(p) > 0 /\ p[1] = "Template"

\* the value the keyword arguments give to the placeholder of a template
KwargsValue == "b"

\* prompt.render(**kwargs): the template's text with its placeholders filled in
Render(p) ==
    [i \in 1..(Len(p) - 1) |-> IF p[i + 1] = "$" THEN KwargsValue ELSE p[i + 1]]

\* `if hasattr(prompt, "render"): prompt = prompt.render(**kwargs)`
RenderedPrompt == IF IsTemplate(prompt) THEN Render(prompt) ELSE prompt

\* a request whose message list grows with the attempts
Request_MessagePerAttempt ==
    [url |-> IF use_openrouter THEN <<"openrouter_base_url">> ELSE <<"api_url", "api_path">>,
     authorization |-> <<"Bearer", "api_key">>,
     model |-> model,
     messages |-> [i \in 1..(retry + 1) |-> [role |-> "user", content |-> RenderedPrompt]]]

\* the url, headers and json of requests.post
Request ==
    [url |-> IF use_openrouter THEN <<"openrouter_base_url">> ELSE <<"api_url", "api_path">>,
     authorization |-> <<"Bearer", "api_key">>,
     model |-> model,
     messages |-> <<[role |-> "user", content |-> RenderedPrompt]>>]

\* gateway_name and response.status_code, as the exception's message embeds them
GatewayErrorArgs(status) ==
    [gateway_name |-> IF use_openrouter THEN "OpenRouter" ELSE "OpenAI Gateway",
     status_code |-> status]

\* the backend's answer to the request the current frame sends
Resp == script[Len(requests) + 1]

\* response['choices'][0]['message']['content']
FirstChoiceContent(body) == body.choices[1].content

\* the duration slept on a 429
RateLimitSleep == api_backoff

\* tok_query, tok_res of OpenAIConnection.get_response, for a body whose usage is not null
ConnTokenCounts(body, p, content) ==
    IF use_openrouter /\ IsGeminiOrGemma(model)
    THEN <<VertexCount(p), VertexCount(content)>>
    ELSE IF body.usage.key = "object"
         THEN <<body.usage.val.prompt_tokens, body.usage.val.completion_tokens>>
         ELSE <<0, 0>>

\* self._tokenizer after the Gemini/Gemma branch of get_response and encode:
\* the hosted tokenizer is looked up and kept, otherwise the field is untouched
ConnTokenizerAfter ==
    IF use_openrouter /\ IsGeminiOrGemma(model) THEN Some("vertex") ELSE tokenizer

\* the frame is past the retry check and sends its request
Attempting ==
    /\ cls = "OpenAIConnection" /\ op = "get_response" /\ pc = "ready"
    /\ ~RetryLimitReached(retry, api_retries)
    /\ Len(requests) < Len(script)

\* retry >= api_retries: raise Exception("Failed to get response from OpenAI API")
RetriesExhausted ==
    /\ cls = "OpenAIConnection" /\ op = "get_response" /\ pc = "ready"
    /\ RetryLimitReached(retry, api_retries)
    /\ outcome' = "Failed to get response"
    /\ pc' = "done"
    /\ UNCHANGED <<connVars, capVars, sinkVars, loopVars, prompt, error, tokenizer, retry, requests, sleeps, result, streamVars, tokVars>>

\* status 429: sleep api_backoff, then get_response(retry + 1)
RateLimited ==
    /\ Attempting
    /\ Resp.kind = "http" /\ Resp.status = 429
    /\ requests' = Append(requests, Request)
    /\ prompt' = RenderedPrompt
    /\ sleeps' = Append(sleeps, RateLimitSleep)
    /\ retry' = retry + 1
    /\ UNCHANGED <<connVars, capVars, sinkVars, loopVars, error, tokenizer, pc, outcome, result, streamVars, tokVars>>

\* requests.exceptions.ConnectionError: sleep 5, then get_response(retry + 1)
ConnectionError ==
    /\ Attempting
    /\ Resp.kind = "ConnectionError"
    /\ requests' = Append(requests, Request)
    /\ prompt' = RenderedPrompt
    /\ sleeps' = Append(sleeps, ConnectionErrorDelay)
    /\ retry' = retry + 1
    /\ UNCHANGED <<connVars, capVars, sinkVars, loopVars, error, tokenizer, pc, outcome, result, streamVars, tokVars>>

\* requests.exceptions.Timeout: get_response(retry + 1) at once
Timeout ==
    /\ Attempting
    /\ Resp.kind = "Timeout"
    /\ requests' = Append(requests, Request)
    /\ prompt' = RenderedPrompt
    /\ retry' = retry + 1
    /\ UNCHANGED <<connVars, capVars, sinkVars, loopVars, error, tokenizer, pc, sleeps, outcome, result, streamVars, tokVars>>

\* any status but 429 and 200: raise Exception("Error from <gateway> (<status>)")
GatewayError ==
    /\ Attempting
    /\ Resp.kind = "http" /\ Resp.status # 429 /\ Resp.status # 200
    /\ requests' = Append(requests, Request)
    /\ prompt' = RenderedPrompt
    /\ outcome' = "Error from gateway"
    /\ error' = Some(GatewayErrorArgs(Resp.status))
    /\ pc' = "done"
    /\ UNCHANGED <<connVars, capVars, sinkVars, loopVars, tokenizer, retry, sleeps, result, streamVars, tokVars>>

\* a body without choices handled like a transient failure: sleep and re-attempt
Success_RetryOnNoChoice ==
    /\ Attempting
    /\ Resp.kind = "http" /\ Resp.status = 200
    /\ requests' = Append(requests, Request)
    /\ prompt' = RenderedPrompt
    /\ IF Len(Resp.choices) = 0
       THEN /\ sleeps' = Append(sleeps, ConnectionErrorDelay)
            /\ retry' = retry + 1
            /\ UNCHANGED <<pc, outcome, result, tokenizer>>
       ELSE LET content == FirstChoiceContent(Resp)
                toks == ConnTokenCounts(Resp, RenderedPrompt, content)
            IN  /\ pc' = "done" /\ outcome' = "ok"
                /\ tokenizer' = ConnTokenizerAfter
                /\ result' = Some(LLMResult(content, RenderedPrompt, content, toks[1], toks[2]))
                /\ UNCHANGED <<retry, sleeps>>
    /\ UNCHANGED <<connVars, capVars, sinkVars, loopVars, error, streamVars, tokVars>>

\* status 200: parse the body and return the LLMResult;
\* choices[0] of an empty list raises IndexError, .get on a null usage AttributeError
Success ==
    /\ Attempting
    /\ Resp.kind = "http" /\ Resp.status = 200
    /\ requests' = Append(requests, Request)
    /\ prompt' = RenderedPrompt
    /\ pc' = "done"
    /\ IF Len(Resp.choices) = 0
       THEN outcome' = "IndexError" /\ UNCHANGED <<result, tokenizer>>
       ELSE LET content == FirstChoiceContent(Resp)
            IN  IF ~(use_openrouter /\ IsGeminiOrGemma(model)) /\ Resp.usage.key = "null"
                THEN outcome' = "AttributeError" /\ UNCHANGED <<result, tokenizer>>
                ELSE LET toks == ConnTokenCounts(Resp, RenderedPrompt, content)
                     IN  /\ outcome' = "ok"
                         /\ tokenizer' = ConnTokenizerAfter
                         /\ result' = Some(LLMResult(content, RenderedPrompt, content, toks[1], toks[2]))
    /\ UNCHANGED <<connVars, capVars, sinkVars, loopVars, error, retry, sleeps, streamVars, tokVars>>

-----------------------------------------------------------------------------
\* OpenAILib.init and OpenAILib.get_response

\* init: build the client and bind the tokenizer
LibInit ==
    /\ cls = "OpenAILib" /\ pc = "new"
    /\ tokenizer' = SelectTokenizer(use_openrouter, model)
    /\ pc' = "ready"
    /\ UNCHANGED <<connVars, capVars, sinkVars, loopVars, prompt, error, retry, requests, sleeps, outcome, result, streamVars, tokVars>>

\* response.choices[0].message
FirstChoiceMessage(completion) == completion.choices[1]

\* get_response: one chat.completions.create call; the client raises on anything
\* but a completion, and a completion without choices raises IndexError
LibGetResponse ==
    /\ cls = "OpenAILib" /\ op = "get_response" /\ pc = "ready"
    /\ Len(requests) < Len(script)
    /\ requests' = Append(requests, Request)
    /\ pc' = "done"
    /\ IF Resp.kind # "http" \/ Resp.status # 200
       THEN outcome' = "APIError" /\ UNCHANGED result
       ELSE IF Len(Resp.choices) = 0
       THEN outcome' = "IndexError" /\ UNCHANGED result
       ELSE LET msg == FirstChoiceMessage(Resp)
                toks == LibTokenCounts(tokenizer, use_openrouter, model, prompt, msg.content)
            IN  /\ outcome' = "ok"
                /\ result' = Some(LLMResult(msg, prompt, msg.content, toks[1], toks[2]))
    /\ UNCHANGED <<connVars, capVars, sinkVars, loopVars, prompt, error, tokenizer, retry, sleeps, streamVars, tokVars>>

-----------------------------------------------------------------------------
\* The non-streaming exchange: a connection of either class, one get_response call

Prompts == { <<"a">>, <<"b", "a", "b">> }

\* prompts that have a render method
Templates == { <<"Template", "a", "$">> }

Backoffs == {2, 60}

StreamIdle ==
    /\ chunks = <<>> /\ message = None /\ usage = None /\ state = None /\ yielded = <<>>

TokIdle == text = <<>> /\ encoded = None /\ counted = None

CapIdle == endpoint = <<>> /\ payload = <<>>

NoError == error = None

NoSink == console = "none" /\ printed = <<>>

NoLoop ==
    /\ max_rounds = 0 /\ round = 0 /\ gotRoot = FALSE /\ cmd = None
    /\ db_log = <<>> /\ commits = 0 /\ runs = <<>>

InitGet ==
    /\ op = "get_response"
    /\ cls \in Classes
    /\ use_openrouter \in BOOLEAN
    /\ model \in Models
    /\ prompt \in (IF cls = "OpenAIConnection" THEN Prompts \cup Templates ELSE Prompts)
    /\ api_retries \in (IF cls = "OpenAIConnection" THEN 0..MaxRetries ELSE {3})
    /\ api_backoff \in (IF cls = "OpenAIConnection" THEN Backoffs ELSE {0})
    /\ script \in (IF cls = "OpenAIConnection" THEN Scripts(api_retries + 1) ELSE Scripts(1))
    /\ tokenizer = None
    /\ pc = (IF cls = "OpenAIConnection" THEN "ready" ELSE "new")
    /\ retry = 0 /\ requests = <<>> /\ sleeps = <<>>
    /\ outcome = "running" /\ result = None
    /\ StreamIdle /\ TokIdle /\ CapIdle /\ NoError /\ NoSink /\ NoLoop

NextGet ==
    \/ RetriesExhausted
    \/ RateLimited
    \/ ConnectionError
    \/ Timeout
    \/ GatewayError
    \/ Success
    \/ LibInit
    \/ LibGetResponse

SpecGet == InitGet /\ [][NextGet]_vars

-----------------------------------------------------------------------------
\* OpenAILib.stream_response: the chunks of a stream

\* a tool-call fragment of a delta (ChoiceDeltaToolCall); arguments is Optional[str]
Frag(i, name, args) == [index |-> i, id |-> <<"call", name>>, name |-> name, arguments |-> args]

\* a delta (ChoiceDelta): role and content are Optional, tool_calls a list (None as empty)
Delta(role, content, frags) == [role |-> role, content |-> content, tool_calls |-> frags]

Chunk(choices, u) == [choices |-> choices, usage |-> u]

\* the fragments drawn: indexes 0 and 1, and 3 (always beyond the slots a stream opens)
Frags ==
    { Frag(i, na[1], Some(na[2])) : i \in {0, 1, 3}, na \in {<<"f", <<"x">>>>, <<"g", <<"y">>>>} }
    \cup { Frag(0, "f", Some(<<>>)), Frag(1, "g", None) }

Deltas ==
    { Delta(None, None, <<f>>) : f \in Frags }
    \cup { Delta(None, None, <<Frag(0, "f", Some(<<>>)), Frag(1, "g", Some(<<>>))>>),
           Delta(Some("assistant"), None, <<>>),
           Delta(None, Some(<<"a">>), <<>>),
           Delta(Some("user"), Some(<<"b">>), <<>>) }

Chunks ==
    { Chunk(<<[delta |-> d]>>, None) : d \in Deltas }
    \cup { Chunk(<<>>, None), Chunk(<<>>, Some(Usage1)), Chunk(<<>>, Some(Usage2)) }

\* ChatCompletionMessageToolCall(id, function=Function(name, arguments), type="function")
NewToolCall(f) == [id |-> f.id, name |-> f.name, arguments |-> f.arguments.val]

\* function.arguments += tool_call.function.arguments
AppendArguments(tcs, i, delta) ==
    [tcs EXCEPT ![i + 1].arguments = @ \o delta]

\* every fragment of a slot rewriting the slot's id and function name
ApplyFragment_RenamesSlot(acc, f) ==
    IF acc.status # "ok" THEN acc
    ELSE IF Len(acc.tool_calls) <= f.index /\ Len(acc.tool_calls) # f.index
    THEN [acc EXCEPT !.status = "gap"]
    ELSE IF f.arguments = None
    THEN [acc EXCEPT !.status = "error"]
    ELSE LET opened == IF Len(acc.tool_calls) <= f.index
                       THEN Append(acc.tool_calls, NewToolCall(f))
                       ELSE [acc.tool_calls EXCEPT ![f.index + 1].id = f.id,
                                                   ![f.index + 1].name = f.name]
         IN  [acc EXCEPT !.tool_calls = AppendArguments(opened, f.index, f.arguments.val)]

\* one pass of `for tool_call in delta.tool_calls` over the fragment f:
\* a new slot when the index is the slot count, a return when it is beyond it
\* ("gap"), and in both remaining cases the += of the fragment's arguments;
\* an arguments of None raises ("error")
ApplyFragment(acc, f) ==
    IF acc.status # "ok" THEN acc
    ELSE IF Len(acc.tool_calls) <= f.index /\ Len(acc.tool_calls) # f.index
    THEN [acc EXCEPT !.status = "gap"]
    ELSE IF f.arguments = None
    THEN [acc EXCEPT !.status = "error"]
    ELSE LET opened == IF Len(acc.tool_calls) <= f.index
                       THEN Append(acc.tool_calls, NewToolCall(f))
                       ELSE acc.tool_calls
         IN  [acc EXCEPT !.tool_calls = AppendArguments(opened, f.index, f.arguments.val)]

RECURSIVE ApplyFragments(_, _)
ApplyFragments(acc, frags) ==
    IF frags = <<>> THEN acc
    ELSE ApplyFragments(ApplyFragment(acc, Head(frags)), Tail(frags))

\* the delta's text put in place of the accumulated content
AppendContent_Replace(msg, delta) ==
    IF delta.content # None THEN [msg EXCEPT !.content = delta.content.val] ELSE msg

\* `if delta.content is not None: message.content += delta.content`
AppendContent(msg, delta) ==
    IF delta.content # None THEN [msg EXCEPT !.content = @ \o delta.content.val] ELSE msg

\* `delta.role is not None and delta.role != message.role`: the warning's condition
RoleChange(msg, delta) == delta.role # None /\ delta.role.val # msg.role

\* a role change taken as the end of the stream
ProcessChunk_ReturnOnRoleChange(msg, chunk) ==
    IF Len(chunk.choices) > 0
    THEN LET delta == chunk.choices[1].delta
             withContent == AppendContent(msg, delta)
             applied == ApplyFragments([tool_calls |-> withContent.tool_calls.val, status |-> "ok"],
                                       delta.tool_calls)
         IN  IF RoleChange(msg, delta)
             THEN [message |-> msg, status |-> "gap"]
             ELSE [message |-> [withContent EXCEPT !.tool_calls = Some(applied.tool_calls)],
                   status |-> applied.status]
    ELSE [message |-> msg, status |-> "ok"]

\* the body of `for chunk in chunks` up to the yield, on message msg:
\* the message after the chunk, and whether the loop goes on;
\* a role change is only printed as a warning
ProcessChunk(msg, chunk) ==
    IF Len(chunk.choices) > 0
    THEN LET delta == chunk.choices[1].delta
             withContent == AppendContent(msg, delta)
             applied == ApplyFragments([tool_calls |-> withContent.tool_calls.val, status |-> "ok"],
                                       delta.tool_calls)
         IN  [message |-> [withContent EXCEPT !.tool_calls = Some(applied.tool_calls)],
              status |-> applied.status]
    ELSE [message |-> msg, status |-> "ok"]

\* the empty list left in place
FinalToolCalls_KeepEmpty(tcs) == Some(tcs)

\* `if len(message.tool_calls) == 0: message.tool_calls = None`
FinalToolCalls(tcs) == IF Len(tcs) = 0 THEN None ELSE Some(tcs)

\* the tokens_query, tokens_response handed to the terminal LLMResult
StreamTokenCounts(u, tok, openrouter, m, p, content) ==
    LibTokenCounts(tok, openrouter, m, p, content)

\* the display phase after the chunk: "content" once a text delta is printed,
\* "tool_call" once the delta carries fragments
NextState(st, chunk) ==
    IF Len(chunk.choices) > 0
    THEN LET delta == chunk.choices[1].delta
             afterContent == IF delta.content # None THEN Some("content") ELSE st
         IN  IF Len(delta.tool_calls) > 0 THEN Some("tool_call") ELSE afterContent
    ELSE st

\* `if chunk.usage is not None: usage = chunk.usage`
NextUsage(u, chunk) == IF chunk.usage # None THEN chunk.usage ELSE u

\* the consoles a stream is displayed on: one that shows what it is handed, one
\* that discards it
Sinks == {"terminal", "quiet"}

\* the arguments of a console.print call
Header(title) == [kind |-> "header", val |-> title]
Shows(t) == [kind |-> "text", val |-> t]
Newline == [kind |-> "newline", val |-> <<>>]

\* the console.print calls of `for tool_call in delta.tool_calls` with n slots open:
\* the header of a new slot, then the fragment's arguments; nothing from a skipped
\* index on, nothing after an arguments of None
RECURSIVE FragmentPrints(_, _)
FragmentPrints(n, frags) ==
    IF frags = <<>> THEN <<>>
    ELSE LET f == Head(frags)
         IN  IF n <= f.index /\ n # f.index THEN <<>>
             ELSE (IF n = f.index THEN <<Header(<<"TOOL CALL - ", f.name>>)>> ELSE <<>>)
                  \o (IF f.arguments = None THEN <<Shows(<<"None">>)>>
                      ELSE <<Shows(f.arguments.val)>>
                           \o FragmentPrints(IF n = f.index THEN n + 1 ELSE n, Tail(frags)))

\* the console.print calls of one turn of the loop, in display phase st
ChunkPrints(msg, st, chunk) ==
    IF Len(chunk.choices) > 0
    THEN LET delta == chunk.choices[1].delta
         IN  (IF delta.content # None
              THEN (IF st # Some("content") THEN <<Header(<<"ASSISTANT:">>)>> ELSE <<>>)
                   \o <<Shows(delta.content.val)>>
              ELSE <<>>)
             \o FragmentPrints(Len(msg.tool_calls.val), delta.tool_calls)
    ELSE <<>>

\* what the console makes of the calls
Shown(sink, calls) == IF sink = "quiet" THEN <<>> ELSE calls

\* what the generator has yielded
ChunkItem(c) == [kind |-> "chunk", chunk |-> c]
ResultItem(r) == [kind |-> "result", result |-> r]

\* the call: chat.completions.create(stream=True), and the empty accumulator
StreamStart ==
    /\ cls = "OpenAILib" /\ op = "stream_response" /\ pc = "ready"
    /\ requests' = Append(requests, Request)
    /\ message' = [role |-> "assistant", content |-> <<>>, tool_calls |-> Some(<<>>)]
    /\ usage' = None
    /\ state' = None
    /\ pc' = "streaming"
    /\ UNCHANGED <<connVars, capVars, sinkVars, loopVars, prompt, error, tokenizer, retry, sleeps, outcome, result, chunks, yielded, tokVars>>

\* a turn of the loop that accumulates only what the console shows
StreamChunk_AccumulatesWhatIsShown(c) ==
    /\ op = "stream_response" /\ pc = "streaming"
    /\ Len(chunks) < MaxChunks
    /\ chunks' = Append(chunks, c)
    /\ printed' = printed \o Shown(console, ChunkPrints(message, state, c))
    /\ LET step == IF console = "quiet" THEN [message |-> message, status |-> "ok"]
                   ELSE ProcessChunk(message, c)
       IN  /\ message' = step.message
           /\ state' = NextState(state, c)
           /\ IF step.status = "gap"
              THEN \* print the warning and return: the generator ends
                   /\ pc' = "done" /\ outcome' = "returned"
                   /\ UNCHANGED <<usage, yielded>>
              ELSE IF step.status = "error"
              THEN \* arguments of None: the += raises
                   /\ pc' = "done" /\ outcome' = "TypeError"
                   /\ UNCHANGED <<usage, yielded>>
              ELSE /\ usage' = NextUsage(usage, c)
                   /\ yielded' = Append(yielded, ChunkItem(c))
                   /\ UNCHANGED <<pc, outcome>>
    /\ UNCHANGED <<connVars, capVars, loopVars, console, prompt, error, tokenizer, retry, requests, sleeps, result, tokVars>>

\* one turn of `for chunk in chunks`: the transport delivers chunk c
StreamChunk(c) ==
    /\ op = "stream_response" /\ pc = "streaming"
    /\ Len(chunks) < MaxChunks
    /\ chunks' = Append(chunks, c)
    /\ printed' = printed \o Shown(console, ChunkPrints(message, state, c))
    /\ LET step == ProcessChunk(message, c)
       IN  /\ message' = step.message
           /\ state' = NextState(state, c)
           /\ IF step.status = "gap"
              THEN \* print the warning and return: the generator ends
                   /\ pc' = "done" /\ outcome' = "returned"
                   /\ UNCHANGED <<usage, yielded>>
              ELSE IF step.status = "error"
              THEN \* arguments of None: the += raises
                   /\ pc' = "done" /\ outcome' = "TypeError"
                   /\ UNCHANGED <<usage, yielded>>
              ELSE /\ usage' = NextUsage(usage, c)
                   /\ yielded' = Append(yielded, ChunkItem(c))
                   /\ UNCHANGED <<pc, outcome>>
    /\ UNCHANGED <<connVars, capVars, loopVars, console, prompt, error, tokenizer, retry, requests, sleeps, result, tokVars>>

\* the LLMResult returned from the generator instead of yielded: it never
\* reaches the consumer
StreamEnd_ReturnInsteadOfYield ==
    /\ op = "stream_response" /\ pc = "streaming"
    /\ message' = [message EXCEPT !.tool_calls = FinalToolCalls(message.tool_calls.val)]
    /\ pc' = "done" /\ outcome' = "ok"
    /\ UNCHANGED <<connVars, capVars, sinkVars, loopVars, prompt, error, tokenizer, retry, requests, sleeps, result, chunks, usage,
                   state, yielded, tokVars>>

\* the transport ends the stream: finalize and yield the LLMResult
StreamEnd ==
    /\ op = "stream_response" /\ pc = "streaming"
    /\ LET final == [message EXCEPT !.tool_calls = FinalToolCalls(message.tool_calls.val)]
           tally == IF usage = None
                    THEN Some([prompt_tokens |-> 0, completion_tokens |-> 0])
                    ELSE usage
           toks == StreamTokenCounts(tally, tokenizer, use_openrouter, model, prompt, message.content)
           res == LLMResult(final, prompt, message.content, toks[1], toks[2])
       IN  /\ message' = final
           /\ usage' = tally
           /\ result' = Some(res)
           /\ yielded' = Append(yielded, ResultItem(res))
    /\ pc' = "done" /\ outcome' = "ok"
    /\ printed' = printed \o Shown(console, <<Newline>>)
    /\ UNCHANGED <<connVars, capVars, loopVars, console, prompt, error, tokenizer, retry, requests, sleeps, chunks, state, tokVars>>

\* the models a streaming connection is configured with
StreamModels == { <<"gpt-", "4">>, <<"google/", "gemini-2.0-flash">> }

InitStream ==
    /\ op = "stream_response"
    /\ cls = "OpenAILib"
    /\ use_openrouter \in BOOLEAN
    /\ model \in StreamModels
    /\ prompt = <<"a", "b", "a">>
    /\ api_retries = 3 /\ api_backoff = 0
    /\ script = <<>>
    /\ tokenizer = None
    /\ pc = "new"
    /\ retry = 0 /\ requests = <<>> /\ sleeps = <<>>
    /\ outcome = "running" /\ result = None
    /\ StreamIdle /\ TokIdle /\ CapIdle /\ NoError
    /\ console \in Sinks /\ printed = <<>>
    /\ NoLoop

NextStream ==
    \/ LibInit
    \/ StreamStart
    \/ \E c \in Chunks : StreamChunk(c)
    \/ StreamEnd

SpecStream == InitStream /\ [][NextStream]_vars

-----------------------------------------------------------------------------
\* encode and count_tokens

\* a value returned by encode or count_tokens, with the tokenizer bound
\* (self._tokenizer) when the call was made
Returned(v, binding) == [none |-> FALSE, val |-> v, binding |-> binding]

\* a default encoder used when no tokenizer is bound
LibEncodeValue_DefaultEncoder(tok, openrouter, m, t) ==
    IF tok # None /\ openrouter /\ StartsWith(m, "google/") THEN VertexEncode(t)
    ELSE TiktokenEncode(t)

\* OpenAILib.encode
LibEncodeValue(tok, openrouter, m, t) ==
    IF tok # None /\ openrouter /\ StartsWith(m, "google/") THEN VertexEncode(t)
    ELSE IF tok # None /\ ~openrouter /\ StartsWith(m, "gpt-") THEN TiktokenEncode(t)
    ELSE <<>>

\* the characters counted instead of the tokens
LibCountTokensValue_CountCharacters(tok, openrouter, m, t) == Len(t)

\* OpenAILib.count_tokens: len(self.encode(query))
LibCountTokensValue(tok, openrouter, m, t) == Len(LibEncodeValue(tok, openrouter, m, t))

\* OpenAIConnection.encode: the hosted tokenizer for the listed Gemini/Gemma
\* models behind OpenRouter, the model's own tiktoken encoding for gpt- models,
\* and the gpt-3.5-turbo encoding for every other model
ConnEncodeValue(openrouter, m, t) ==
    IF openrouter /\ IsGeminiOrGemma(m) THEN VertexEncode(t)
    ELSE IF StartsWith(m, "gpt-") THEN TiktokenEncode(t)
    ELSE TiktokenEncode(t)

LibEncode ==
    /\ cls = "OpenAILib" /\ op = "encode" /\ pc \in {"new", "ready"}
    /\ encoded' = Returned(LibEncodeValue(tokenizer, use_openrouter, model, text), tokenizer)
    /\ UNCHANGED <<connVars, capVars, sinkVars, loopVars, prompt, error, tokenizer, getVars, streamVars, text, counted>>

LibCountTokens ==
    /\ cls = "OpenAILib" /\ op = "encode" /\ pc \in {"new", "ready"}
    /\ counted' = Returned(LibCountTokensValue(tokenizer, use_openrouter, model, text), tokenizer)
    /\ UNCHANGED <<connVars, capVars, sinkVars, loopVars, prompt, error, tokenizer, getVars, streamVars, text, encoded>>

ConnEncode ==
    /\ cls = "OpenAIConnection" /\ op = "encode" /\ pc = "ready"
    /\ encoded' = Returned(ConnEncodeValue(use_openrouter, model, text), tokenizer)
    /\ tokenizer' = ConnTokenizerAfter
    /\ UNCHANGED <<connVars, capVars, sinkVars, loopVars, prompt, error, getVars, streamVars, text, counted>>

InitTok ==
    /\ op = "encode"
    /\ cls \in Classes
    /\ use_openrouter \in BOOLEAN
    /\ model \in Models
    /\ text \in Texts
    /\ prompt = <<>>
    /\ api_retries = 3 /\ api_backoff = 0
    /\ script = <<>>
    /\ tokenizer = None
    /\ pc = (IF cls = "OpenAIConnection" THEN "ready" ELSE "new")
    /\ retry = 0 /\ requests = <<>> /\ sleeps = <<>>
    /\ outcome = "running" /\ result = None
    /\ StreamIdle /\ CapIdle /\ NoError /\ NoSink /\ NoLoop
    /\ encoded = None /\ counted = None

NextTok ==
    \/ LibInit
    \/ LibEncode
    \/ LibCountTokens
    \/ ConnEncode

SpecTok == InitTok /\ [][NextTok]_vars

-----------------------------------------------------------------------------
\* GeminiRequest.__call__ (capabilities/gemini_request.py)

\* endpoints, as sequences of path segments
Endpoints == { <<"test_endpoint">>, <<"models">>, <<"models", "/", "generate">> }

\* JSON objects, as sequences of key/value pairs
JsonObjects == { <<>>, <<<<"data", "test">>>>, <<<<"key", "value">>>>,
                 <<<<"key", "value">>, <<"n", "1">>>> }

\* what the server (or the transport) answers to the POST: a response of any
\* status with a JSON body, a response whose body is not JSON, or a failure
GeminiAnswers ==
    { [kind |-> "http", status |-> st, json |-> Some(b)] : st \in {200, 429, 500}, b \in JsonObjects }
    \cup { [kind |-> "http", status |-> 200, json |-> None],
           [kind |-> "ConnectionError"], [kind |-> "Timeout"] }

\* the address without the API version
GeminiUrl_NoVersion(e) == <<"https://api.gemini.com/">> \o e

\* url = f"https://api.gemini.com/v1/{endpoint}"
GeminiUrl(e) == <<"https://api.gemini.com/v1/">> \o e

\* requests.post(url, json=payload)
GeminiPost == [url |-> GeminiUrl(endpoint), json |-> payload]

\* the whole call: one requests.post, then response.json(); an exception of
\* either propagates to the caller
GeminiCall ==
    /\ op = "gemini_request" /\ pc = "ready"
    /\ requests' = Append(requests, GeminiPost)
    /\ pc' = "done"
    /\ LET answer == script[Len(requests) + 1]
       IN  IF answer.kind # "http"
           THEN outcome' = answer.kind /\ UNCHANGED result
           ELSE IF answer.json = None
           THEN outcome' = "JSONDecodeError" /\ UNCHANGED result
           ELSE outcome' = "ok" /\ result' = answer.json
    /\ UNCHANGED <<connVars, capVars, sinkVars, loopVars, prompt, error, tokenizer, retry, sleeps, streamVars, tokVars>>

InitGemini ==
    /\ op = "gemini_request"
    /\ cls = "GeminiRequest"
    /\ endpoint \in Endpoints
    /\ payload \in JsonObjects
    /\ script \in { <<a>> : a \in GeminiAnswers }
    /\ use_openrouter = FALSE /\ model = <<>> /\ prompt = <<>>
    /\ api_retries = 0 /\ api_backoff = 0
    /\ tokenizer = None
    /\ pc = "ready"
    /\ retry = 0 /\ requests = <<>> /\ sleeps = <<>>
    /\ outcome = "running" /\ result = None
    /\ StreamIdle /\ TokIdle /\ NoError /\ NoSink /\ NoLoop

NextGemini == GeminiCall

SpecGemini == InitGemini /\ [][NextGemini]_vars

-----------------------------------------------------------------------------
\* The orchestration loop (wintermute.py)

\* what a round meets: the LLM's answer names a command for handle_cmd or for
\* handle_ssh, which tells whether root was obtained, or names neither; or
\* get_next_cmd raises, which nothing in the script catches
RoundAnswers ==
    { [type |-> t, root |-> g] : t \in {"cmd", "ssh"}, g \in BOOLEAN }
    \cup { [type |-> "other", root |-> FALSE], [type |-> "raises", root |-> FALSE] }

\* `while round < args.max_rounds and not gotRoot`
LoopGoesOn == round < max_rounds /\ ~gotRoot

\* one round: ask for a command, run it through its handler, log it, commit,
\* count the round. cmd, result and gotRoot are assigned by the two handler
\* branches only: an answer of another type leaves them as they are, and raises
\* NameError at add_log_query when cmd was never bound
Round(a) ==
    /\ op = "wintermute" /\ pc = "loop"
    /\ LoopGoesOn
    /\ IF a.type = "raises"
       THEN /\ pc' = "done" /\ outcome' = "Exception"
            /\ UNCHANGED <<round, gotRoot, cmd, db_log, commits>>
       ELSE IF a.type \notin {"cmd", "ssh"} /\ cmd = None
       THEN /\ pc' = "done" /\ outcome' = "NameError"
            /\ UNCHANGED <<round, gotRoot, cmd, db_log, commits>>
       ELSE LET handled == a.type \in {"cmd", "ssh"}
                ran == IF handled THEN Some(<<a.type, round>>) ELSE cmd
            IN  /\ cmd' = ran
                /\ gotRoot' = (IF handled THEN a.root ELSE gotRoot)
                /\ db_log' = Append(db_log, [round |-> round, cmd |-> ran.val])
                /\ commits' = commits + 1
                /\ round' = round + 1
                /\ UNCHANGED <<pc, outcome>>
    /\ UNCHANGED <<connVars, capVars, sinkVars, max_rounds, runs, prompt, error, tokenizer,
                   retry, requests, sleeps, result, streamVars, tokVars>>

\* after the loop: db.run_was_success(run_id, round) or db.run_was_failure(run_id, round)
EndOfRun ==
    /\ op = "wintermute" /\ pc = "loop"
    /\ ~LoopGoesOn
    /\ runs' = Append(runs, [was |-> IF gotRoot THEN "success" ELSE "failure", round |-> round])
    /\ pc' = "done" /\ outcome' = "ok"
    /\ UNCHANGED <<connVars, capVars, sinkVars, max_rounds, round, gotRoot, cmd, db_log, commits,
                   prompt, error, tokenizer, retry, requests, sleeps, result, streamVars, tokVars>>

InitLoop ==
    /\ op = "wintermute"
    /\ cls = "wintermute"
    /\ max_rounds \in 0..MaxRounds
    /\ round = 0 /\ gotRoot = FALSE /\ cmd = None
    /\ db_log = <<>> /\ commits = 0 /\ runs = <<>>
    /\ use_openrouter = FALSE /\ model = <<>> /\ prompt = <<>>
    /\ api_retries = 0 /\ api_backoff = 0
    /\ script = <<>>
    /\ tokenizer = None
    /\ pc = "loop"
    /\ retry = 0 /\ requests = <<>> /\ sleeps = <<>>
    /\ outcome = "running" /\ result = None
    /\ StreamIdle /\ TokIdle /\ CapIdle /\ NoError
    /\ console = "none" /\ printed = <<>>

NextLoop ==
    \/ \E a \in RoundAnswers : Round(a)
    \/ EndOfRun

SpecLoop == InitLoop /\ [][NextLoop]_vars

-----------------------------------------------------------------------------
\* Properties of the non-streaming exchange (SpecGet)

ConnGet == cls = "OpenAIConnection" /\ op = "get_response"

Is429(r) == r.kind = "http" /\ r.status = 429

\* a 200 whose body has exactly one choice and a usage that is not null
ValidSingleChoice(r) ==
    r.kind = "http" /\ r.status = 200 /\ Len(r.choices) = 1 /\ r.usage.key # "null"

\* a 200 whose body has no choice
NoChoice(r) == r.kind = "http" /\ r.status = 200 /\ Len(r.choices) = 0

\* the sleeps the failures answered to requests 1..n call for
SleepingFailures(n) ==
    Cardinality({j \in 1..n : Is429(script[j]) \/ script[j].kind = "ConnectionError"})

\* C1: with api_retries = N and nothing but retryable failures (429, connection
\* error, timeout, in any mix), get_response sends exactly N + 1 requests and then
\* fails with the retries-exhausted error, and sends nothing past the limit.
C1_ExactlyNRetriesThenExhausted ==
    (ConnGet /\ \A i \in 1..Len(script) : script[i] \in RetryableFailures)
        => /\ Len(requests) <= api_retries + 1
           /\ pc = "done" => /\ Len(requests) = api_retries + 1
                             /\ outcome = "Failed to get response"

\* C2: for every k <= api_retries, k consecutive 429 responses followed by a 200
\* make get_response succeed on attempt k + 1 after exactly k sleeps of api_backoff.
C2_SucceedsAfterKRateLimits ==
    \A k \in 0..api_retries :
        ( /\ ConnGet /\ pc = "done"
          /\ Len(script) = k + 1
          /\ \A i \in 1..k : Is429(script[i])
          /\ ValidSingleChoice(script[k + 1]) )
        => /\ outcome = "ok"
           /\ Len(requests) = k + 1
           /\ sleeps = [i \in 1..k |-> api_backoff]

\* C3: a 200 response without choices ends the call with an error at once: it is
\* the last request sent, no LLMResult is returned, the attempt counter stays where
\* the earlier failures left it and no sleep follows the response.
C3_NoChoiceFailsWithoutRetry ==
    op = "get_response" =>
        \A i \in 1..Len(requests) :
            NoChoice(script[i])
            => /\ i = Len(requests)
               /\ pc = "done"
               /\ outcome = "IndexError"
               /\ result = None
               /\ retry = i - 1
               /\ Len(sleeps) = SleepingFailures(i - 1)

C3_Witness ==
    /\ ConnGet /\ pc = "done" /\ outcome = "IndexError"
    /\ Len(requests) >= 2 /\ Len(sleeps) >= 1
    /\ NoChoice(script[Len(requests)])

-----------------------------------------------------------------------------
\* Properties of the streaming exchange (SpecStream)

Streaming == op = "stream_response"

\* the outcomes that are an exception raised to the caller
ErrorOutcomes == {"Failed to get response", "Error from gateway", "IndexError",
                  "AttributeError", "APIError", "TypeError", "StreamProtocolError"}

\* the tool-call fragments of a chunk sequence, in arrival order
RECURSIVE FragsOf(_)
FragsOf(cs) ==
    IF cs = <<>> THEN <<>>
    ELSE (IF Len(Head(cs).choices) > 0 THEN Head(cs).choices[1].delta.tool_calls ELSE <<>>)
         \o FragsOf(Tail(cs))

\* the indexes the fragments before position k carry
IndexesBefore(F, k) == {F[j].index : j \in 1..(k - 1)}

\* fragment k skips ahead: its index is beyond the slots opened before it
GapAt(F, k) == F[k].index > Cardinality(IndexesBefore(F, k))

HasGap(F) == \E k \in 1..Len(F) : GapAt(F, k)

HasNoArguments(F) == \E k \in 1..Len(F) : F[k].arguments = None

\* no fragment skips ahead and every fragment carries an arguments string
WellFormed(cs) == ~HasGap(FragsOf(cs)) /\ ~HasNoArguments(FragsOf(cs))

\* the concatenation, in arrival order, of the argument deltas of the fragments of index i
RECURSIVE ArgumentsOf(_, _)
ArgumentsOf(F, i) ==
    IF F = <<>> THEN <<>>
    ELSE (IF Head(F).index = i THEN Head(F).arguments.val ELSE <<>>) \o ArgumentsOf(Tail(F), i)

\* the first fragment of index i
FirstOf(F, i) == F[CHOOSE k \in 1..Len(F) : F[k].index = i /\ \A j \in 1..(k - 1) : F[j].index # i]

\* the accumulated tool calls, as a list
Slots == IF message.tool_calls = None THEN <<>> ELSE message.tool_calls.val

\* the usage of the last usage-bearing chunk
RECURSIVE LastUsage(_)
LastUsage(cs) ==
    IF cs = <<>> THEN None
    ELSE IF cs[Len(cs)].usage # None THEN cs[Len(cs)].usage
    ELSE LastUsage(SubSeq(cs, 1, Len(cs) - 1))

\* C4 as stated: every finished stream has produced its chunks, in arrival order,
\* and then exactly one LLMResult as the final element.
C4_AlwaysEndsWithOneResult ==
    (Streaming /\ pc = "done")
        => /\ Len(yielded) = Len(chunks) + 1
           /\ \A i \in 1..Len(chunks) : yielded[i] = ChunkItem(chunks[i])
           /\ yielded[Len(yielded)].kind = "result"

\* C4, amended: an LLMResult is only ever the final element and ends the sequence,
\* the chunks before it are the delivered chunks in arrival order; a finished
\* stream without a skipped index and with an arguments string in every fragment
\* has produced all its chunks and then the one LLMResult, and a finished stream
\* with such a fragment has produced the chunks before the offending one and no
\* LLMResult.
C4_EndsWithOneResultUnlessAborted ==
    Streaming =>
        /\ \A i \in 1..Len(yielded) :
              IF yielded[i].kind = "result"
              THEN i = Len(yielded) /\ pc = "done" /\ i = Len(chunks) + 1
              ELSE i <= Len(chunks) /\ yielded[i] = ChunkItem(chunks[i])
        /\ pc = "done" =>
              IF WellFormed(chunks)
              THEN /\ Len(yielded) = Len(chunks) + 1
                   /\ yielded[Len(yielded)].kind = "result"
                   /\ outcome = "ok"
              ELSE /\ Len(yielded) = Len(chunks) - 1
                   /\ \A i \in 1..Len(yielded) : yielded[i].kind = "chunk"
                   /\ outcome # "ok"

C4_Witness ==
    /\ Streaming /\ pc = "done" /\ outcome = "ok"
    /\ Len(chunks) = MaxChunks
    /\ Len(FragsOf(chunks)) >= 2
    /\ yielded[Len(yielded)].kind = "result"

\* C5: a fragment whose index is beyond the number of accumulated tool calls
\* aborts the stream with an error raised to the caller; no LLMResult is produced.
C5_GapRaisesError ==
    (Streaming /\ HasGap(FragsOf(chunks)) /\ ~HasNoArguments(FragsOf(chunks)))
        => /\ pc = "done"
           /\ outcome \in ErrorOutcomes
           /\ result = None
           /\ \A i \in 1..Len(yielded) : yielded[i].kind = "chunk"

\* C6: without a skipped index, the arguments of slot i are the concatenation, in
\* arrival order and each counted once, of the argument deltas of the fragments
\* of index i, the fragment that opened the slot included.
C6_ArgumentsAreConcatenation ==
    (Streaming /\ pc \in {"streaming", "done"} /\ WellFormed(chunks))
        => /\ Len(Slots) = Cardinality({f.index : f \in {FragsOf(chunks)[k] : k \in 1..Len(FragsOf(chunks))}})
           /\ \A i \in 1..Len(Slots) :
                 Slots[i].arguments = ArgumentsOf(FragsOf(chunks), i - 1)

\* C7: the message of the terminal LLMResult has tool_calls None, never an empty
\* list, when the stream carried no fragment; otherwise it is the non-empty list
\* of the calls, one per index in index order, named by the fragment that opened it.
C7_ToolCallsNoneWhenEmpty ==
    (Streaming /\ pc = "done" /\ outcome = "ok")
        => LET tc == result.val.raw_message.tool_calls
               F == FragsOf(chunks)
           IN  /\ tc # Some(<<>>)
               /\ F = <<>> => tc = None
               /\ F # <<>> =>
                     /\ tc # None
                     /\ Len(tc.val) = Cardinality({F[k].index : k \in 1..Len(F)})
                     /\ \A i \in 1..Len(tc.val) :
                           /\ tc.val[i].id = FirstOf(F, i - 1).id
                           /\ tc.val[i].name = FirstOf(F, i - 1).name

C7_Witness ==
    /\ Streaming /\ pc = "done" /\ outcome = "ok"
    /\ Len(chunks) >= 2
    /\ FragsOf(chunks) = <<>>
    /\ result.val.content # <<>>
    /\ result.val.raw_message.tool_calls = None

\* C8: with a usage-bearing chunk received and a tokenizer bound, the token counts
\* of the terminal LLMResult are those of the last usage-bearing chunk.
C8_UsageChunkWins ==
    (Streaming /\ pc = "done" /\ outcome = "ok" /\ tokenizer # None /\ LastUsage(chunks) # None)
        => /\ result.val.tokens_query = LastUsage(chunks).val.prompt_tokens
           /\ result.val.tokens_response = LastUsage(chunks).val.completion_tokens

-----------------------------------------------------------------------------
\* Properties of encode and count_tokens (SpecTok)

\* the routing mode and model identifier match no tokenizer family: neither a
\* provider-hosted family behind the proxy nor a first-party family on the direct path
NoRecognizedFamily ==
    LET hosted == IF cls = "OpenAILib" THEN StartsWith(model, "google/")
                  ELSE IsGeminiOrGemma(model)
    IN  /\ ~(use_openrouter /\ hosted)
        /\ ~(~use_openrouter /\ StartsWith(model, "gpt-"))

\* C10 as stated: with no recognized tokenizer family, encode returns the empty
\* sequence and count_tokens 0, on both connection classes.
C10_EmptyOnBothClasses ==
    (op = "encode" /\ NoRecognizedFamily)
        => /\ encoded # None => encoded.val = <<>>
           /\ counted # None => counted.val = 0

\* C10, amended: with no recognized tokenizer family, OpenAILib.encode returns the
\* empty sequence and OpenAILib.count_tokens 0, before and after init;
\* OpenAIConnection.encode returns the tokens of its tiktoken encoder instead.
C10_EmptyOnOpenAILibOnly ==
    (op = "encode" /\ NoRecognizedFamily)
        => /\ cls = "OpenAILib" =>
                 /\ encoded # None => encoded.val = <<>>
                 /\ counted # None => counted.val = 0
           /\ (cls = "OpenAIConnection" /\ encoded # None) =>
                 encoded.val = TiktokenEncode(text)

C10_Witness ==
    /\ op = "encode" /\ cls = "OpenAILib" /\ pc = "ready"
    /\ NoRecognizedFamily
    /\ Len(text) >= 2
    /\ encoded # None /\ encoded.val = <<>>
    /\ counted # None /\ counted.val = 0

\* C11: on an OpenAILib connection, for every text and every tokenizer binding
\* (hosted, local or none), the length of what encode returns equals what
\* count_tokens returns under the same binding.
C11_EncodeLengthIsCount ==
    (op = "encode" /\ cls = "OpenAILib" /\ encoded # None /\ counted # None
        /\ encoded.binding = counted.binding)
        => Len(encoded.val) = counted.val

C11_Witness ==
    /\ op = "encode" /\ cls = "OpenAILib" /\ pc = "ready"
    /\ tokenizer = Some("vertex")
    /\ encoded # None /\ counted # None
    /\ encoded.binding = tokenizer /\ counted.binding = tokenizer
    /\ Len(text) = 3
    /\ Len(encoded.val) = 2 /\ counted.val = 2

-----------------------------------------------------------------------------
\* More properties of the streaming accumulator (SpecStream)

\* the concatenation, in arrival order, of the text deltas of the chunks' first choice
RECURSIVE ContentOf(_)
ContentOf(cs) ==
    IF cs = <<>> THEN <<>>
    ELSE (IF Len(Head(cs).choices) > 0 /\ Head(cs).choices[1].delta.content # None
          THEN Head(cs).choices[1].delta.content.val ELSE <<>>)
         \o ContentOf(Tail(cs))

\* the chunk a step of the loop has just been handed
Delivered == chunks'[Len(chunks')]

NoChoices(c) == Len(c.choices) = 0

NoTextDelta(c) == NoChoices(c) \/ c.choices[1].delta.content = None

NoFragments(c) == NoChoices(c) \/ Len(c.choices[1].delta.tool_calls) = 0

\* the content of the terminal LLMResult is the concatenation of the text deltas
TerminalContentIsConcatenation ==
    (Streaming /\ pc = "done" /\ outcome = "ok")
        => /\ ~HasGap(FragsOf(chunks))
           /\ result.val.content = ContentOf(chunks)
           /\ result.val.raw_message.content = ContentOf(chunks)

\* C17 as stated: the terminal content is the concatenation of the text deltas, and
\* a chunk with zero choices or with no text delta leaves both the accumulated
\* content and the accumulated tool calls as they were, its usage being recorded.
C17_NoTextDeltaLeavesToolCalls ==
    /\ []TerminalContentIsConcatenation
    /\ [][(Streaming /\ pc = "streaming" /\ chunks' # chunks /\ NoTextDelta(Delivered))
            => /\ message'.content = message.content
               /\ message'.tool_calls = message.tool_calls
               /\ (Delivered.usage # None /\ pc' = "streaming") => usage' = Delivered.usage]_vars

\* C17, amended: the terminal content is the concatenation of the text deltas; a
\* chunk with no text delta (zero choices included) leaves the accumulated content
\* as it was, a chunk with no tool-call fragment (zero choices included) leaves the
\* accumulated tool calls as they were, and a chunk that is yielded has its usage,
\* when it carries one, recorded as the running tally.
C17_ContentIsConcatenationOfTextDeltas ==
    /\ []TerminalContentIsConcatenation
    /\ [][(Streaming /\ pc = "streaming" /\ chunks' # chunks)
            => /\ NoTextDelta(Delivered) => message'.content = message.content
               /\ NoFragments(Delivered) => message'.tool_calls = message.tool_calls
               /\ (Delivered.usage # None /\ pc' = "streaming") => usage' = Delivered.usage
               /\ message'.content = ContentOf(chunks')]_vars

C17_Witness ==
    /\ Streaming /\ pc = "done" /\ outcome = "ok"
    /\ Len(chunks) = 3
    /\ chunks[1].choices # <<>> /\ chunks[1].choices[1].delta.content = Some(<<"a">>)
    /\ chunks[2] = Chunk(<<>>, Some(Usage1))
    /\ chunks[3].choices # <<>> /\ chunks[3].choices[1].delta.content = Some(<<"b">>)
    /\ result.val.content = <<"a", "b">>
    /\ usage = Some(Usage1)

\* every slot carries the id and the function name of the first fragment of its index
SlotsNamedByFirstFragment ==
    (Streaming /\ message # None)
        => \A i \in 0..(Len(Slots) - 1) :
              /\ \E k \in 1..Len(FragsOf(chunks)) : FragsOf(chunks)[k].index = i
              /\ Slots[i + 1].id = FirstOf(FragsOf(chunks), i).id
              /\ Slots[i + 1].name = FirstOf(FragsOf(chunks), i).name

\* C18: the slots are the indexes 0..n-1: a step only appends slots at the end, one
\* per index in increasing order, and never touches the id or the function name of
\* a slot that exists; each slot has those of the first fragment of its index.
C18_SlotsAreGaplessAndKeepIdAndName ==
    /\ []SlotsNamedByFirstFragment
    /\ [][(Streaming /\ message # None)
            => /\ Len(Slots') >= Len(Slots)
               /\ \A i \in 1..Len(Slots) :
                     Slots'[i].id = Slots[i].id /\ Slots'[i].name = Slots[i].name
               /\ \A i \in (Len(Slots) + 1)..Len(Slots') :
                     \E k \in 1..Len(FragsOf(<<Delivered>>)) :
                        /\ FragsOf(<<Delivered>>)[k].index = i - 1
                        /\ Slots'[i].id = FragsOf(<<Delivered>>)[k].id]_vars

C18_Witness ==
    /\ Streaming /\ pc = "streaming"
    /\ Len(chunks) = 3 /\ Len(FragsOf(chunks)) = 3
    /\ FragsOf(chunks)[1] = Frag(0, "f", Some(<<"x">>))
    /\ FragsOf(chunks)[2].index = 1
    /\ FragsOf(chunks)[3] = Frag(0, "g", Some(<<"y">>))
    /\ Len(Slots) = 2
    /\ Slots[1].name = "f" /\ Slots[1].id = <<"call", "f">>

\* chunk c declares a role other than the accumulated message's
DeclaresOtherRole(c) ==
    /\ Len(c.choices) > 0
    /\ c.choices[1].delta.role # None
    /\ c.choices[1].delta.role.val # "assistant"

\* C19: a chunk declaring another role neither ends the stream nor changes the
\* role: the message's role is "assistant" throughout, the chunk is yielded like
\* any other, and a finished stream whose fragments are in order ends with its
\* LLMResult, whose message has the role "assistant".
C19_RoleChangeIsTolerated ==
    Streaming =>
        /\ message # None => message.role = "assistant"
        /\ \A i \in 1..Len(chunks) :
              (DeclaresOtherRole(chunks[i]) /\ WellFormed(SubSeq(chunks, 1, i)))
                  => /\ Len(yielded) >= i /\ yielded[i] = ChunkItem(chunks[i])
                     /\ (pc = "done" /\ WellFormed(chunks))
                           => (outcome = "ok" /\ Len(yielded) = Len(chunks) + 1)
        /\ (pc = "done" /\ outcome = "ok")
              => /\ yielded[Len(yielded)].kind = "result"
                 /\ result.val.raw_message.role = "assistant"

C19_Witness ==
    /\ Streaming /\ pc = "done" /\ outcome = "ok"
    /\ Len(chunks) = 2
    /\ DeclaresOtherRole(chunks[1])
    /\ chunks[2].choices # <<>> /\ chunks[2].choices[1].delta.content = Some(<<"a">>)
    /\ result.val.content = <<"b", "a">>
    /\ result.val.raw_message.role = "assistant"
    /\ Len(yielded) = 3

\* the run of the accumulator over a chunk sequence with no display at all: the
\* message, the tally and the chunks produced, up to the chunk that ends the run
RECURSIVE Accumulate(_, _)
Accumulate(acc, cs) ==
    IF cs = <<>> \/ acc.status # "ok" THEN acc
    ELSE LET step == ProcessChunk(acc.message, Head(cs))
         IN  Accumulate([message |-> step.message,
                         status |-> step.status,
                         consumed |-> acc.consumed + 1,
                         usage |-> IF step.status = "ok" THEN NextUsage(acc.usage, Head(cs))
                                   ELSE acc.usage,
                         yielded |-> IF step.status = "ok"
                                     THEN Append(acc.yielded, ChunkItem(Head(cs)))
                                     ELSE acc.yielded],
                        Tail(cs))

Undisplayed(cs) ==
    Accumulate([message |-> [role |-> "assistant", content |-> <<>>, tool_calls |-> Some(<<>>)],
                status |-> "ok", consumed |-> 0, usage |-> None, yielded |-> <<>>], cs)

\* the terminal result of the run without display
UndisplayedResult(cs) ==
    LET ref == Undisplayed(cs)
        final == [ref.message EXCEPT !.tool_calls = FinalToolCalls(ref.message.tool_calls.val)]
        toks == LibTokenCounts(tokenizer, use_openrouter, model, prompt, ref.message.content)
    IN  LLMResult(final, prompt, ref.message.content, toks[1], toks[2])

-----------------------------------------------------------------------------
\* Properties of the retry controller (SpecGet)

\* a status of the 2xx class
Is2xx(st) == st \in 200..299

\* C13: a request timeout is handled like a connection-establishment failure: after
\* either, the controller sleeps the same short fixed delay, whatever api_backoff
\* is, and re-attempts with the counter incremented by one.
C13_TimeoutSleepsLikeConnectionError ==
    (ConnGet /\ \A i \in 1..Len(requests) : script[i].kind \in {"ConnectionError", "Timeout"})
        => /\ sleeps = [i \in 1..Len(requests) |-> ConnectionErrorDelay]
           /\ retry = Len(requests)

\* C14: a response whose status is neither 2xx nor 429 ends the exchange with an
\* error carrying the provider name and the status, with no sleep and no further
\* request even when retries remain; a 2xx response never ends it with that error.
C14_FatalIffNot2xxNor429 ==
    ConnGet =>
        \A i \in 1..Len(requests) :
            script[i].kind = "http" =>
                /\ (~Is2xx(script[i].status) /\ script[i].status # 429)
                      => /\ pc = "done" /\ outcome = "Error from gateway"
                         /\ error = Some([gateway_name |-> IF use_openrouter THEN "OpenRouter"
                                                           ELSE "OpenAI Gateway",
                                          status_code |-> script[i].status])
                         /\ Len(requests) = i
                         /\ Len(sleeps) = SleepingFailures(i - 1)
                /\ Is2xx(script[i].status) => outcome # "Error from gateway"

\* C15: every sleep lies between two attempts: it follows a failed request and is
\* followed by another request. The sleeps that follow the requests before the last
\* one are each followed by a request, so once the exchange is over there must be
\* no sleep beyond those.
C15_EverySleepBetweenAttempts ==
    ConnGet =>
        /\ Len(sleeps) <= Len(requests)
        /\ (pc = "done" /\ Len(requests) > 0)
              => Len(sleeps) = SleepingFailures(Len(requests) - 1)

\* C16: every re-attempt sends the request the first attempt sent (same url,
\* authorization, model and message list); the prompt is rendered by the first
\* frame only, later frames are handed the rendered text, and the counter is the
\* number of attempts made so far.
C16_ReattemptsSendTheSameRequest ==
    ConnGet =>
        /\ \A i \in 1..Len(requests) : requests[i] = requests[1]
        /\ Len(requests) > 0
              => /\ ~IsTemplate(prompt)
                 /\ requests[1] =
                       [url |-> IF use_openrouter THEN <<"openrouter_base_url">>
                                ELSE <<"api_url", "api_path">>,
                        authorization |-> <<"Bearer", "api_key">>,
                        model |-> model,
                        messages |-> <<[role |-> "user", content |-> prompt]>>]
        /\ pc = "ready" => retry = Len(requests)

C16_Witness ==
    /\ ConnGet /\ pc = "done" /\ outcome = "ok"
    /\ Len(requests) = 3 /\ retry = 2
    /\ Is429(script[1]) /\ script[2].kind = "Timeout"
    /\ requests[3].messages[1].content = <<"a", "b">>
    /\ requests[3] = requests[1]

\* the token counts of the LLMResult returned
ResultCounts == <<result.val.tokens_query, result.val.tokens_response>>

\* the counts of the tokenizer that the routing and the model select: the hosted
\* one for a recognized provider-hosted family behind the proxy, the local encoder
\* for a gpt- model on the direct path, and none (zero) otherwise
AdapterCounts ==
    LET hosted == IF cls = "OpenAILib" THEN StartsWith(model, "google/")
                  ELSE IsGeminiOrGemma(model)
    IN  IF use_openrouter /\ hosted
        THEN <<VertexCount(result.val.prompt), VertexCount(result.val.content)>>
        ELSE IF ~use_openrouter /\ StartsWith(model, "gpt-")
        THEN <<Len(TiktokenEncode(result.val.prompt)), Len(TiktokenEncode(result.val.content))>>
        ELSE <<0, 0>>

\* C21: the token counts of the LLMResult of get_response are those of the body's
\* usage when it is present and not null, whatever the routing and the model;
\* failing that the selected tokenizer's counts of the prompt and the content, and
\* zero when no tokenizer is selected.
C21_UsageThenTokenizerThenZero ==
    (op = "get_response" /\ pc = "done" /\ outcome = "ok")
        => LET body == script[Len(requests)]
           IN  IF body.usage.key = "object"
               THEN ResultCounts = <<body.usage.val.prompt_tokens,
                                     body.usage.val.completion_tokens>>
               ELSE ResultCounts = AdapterCounts

\* C22: every request of OpenAIConnection.get_response goes to the base URL
\* followed by the API path, with the bearer credential; with use_openrouter the
\* base URL is the proxy's and the path is appended all the same.
C22_UrlIsBaseThenPath ==
    ConnGet =>
        \A i \in 1..Len(requests) :
            /\ requests[i].url =
                  <<IF use_openrouter THEN "openrouter_base_url" ELSE "api_url", "api_path">>
            /\ requests[i].authorization = <<"Bearer", "api_key">>

-----------------------------------------------------------------------------
\* Properties of GeminiRequest (SpecGemini)

\* C12: a call sends exactly one POST, to https://api.gemini.com/v1/<endpoint>
\* with the payload as JSON body, and returns the decoded JSON body of that one
\* response unchanged, whatever its status; no second request is ever sent.
C12_OnePostReturnsItsJson ==
    op = "gemini_request" =>
        /\ Len(requests) <= 1
        /\ pc = "done" =>
              /\ requests = <<[url |-> <<"https://api.gemini.com/v1/">> \o endpoint,
                               json |-> payload]>>
              /\ (script[1].kind = "http" /\ script[1].json # None)
                    => (outcome = "ok" /\ result = script[1].json)
        /\ pc # "done" => (requests = <<>> /\ result = None)

C12_Witness ==
    /\ op = "gemini_request" /\ pc = "done" /\ outcome = "ok"
    /\ Len(requests) = 1
    /\ endpoint = <<"test_endpoint">> /\ payload = <<<<"data", "test">>>>
    /\ script[1].status = 429
    /\ result = Some(<<<<"key", "value">>>>)

-----------------------------------------------------------------------------
\* Properties of the orchestration loop (SpecLoop)

\* C23: the loop runs at most max_rounds rounds and commits the log once per
\* round; the script ends only once root is obtained or the rounds are used up,
\* and has then recorded the run exactly once, as a success if and only if root
\* was obtained and as a failure otherwise.
C23_RunRecordedOnceAfterTheLoop ==
    op = "wintermute" =>
        /\ round <= max_rounds
        /\ commits = round /\ Len(db_log) = round
        /\ Len(runs) <= 1
        /\ pc = "done" =>
              /\ gotRoot \/ round = max_rounds
              /\ runs = <<[was |-> IF gotRoot THEN "success" ELSE "failure", round |-> round]>>

====
